---- MODULE Spec2Model ----
(***************************************************************************)
(* The view-navigation state machine of the Shopify App Store dashboard    *)
(* (src/app.py).  A Streamlit session is a sequence of script runs: every  *)
(* widget event re-executes app.py from its first line against the         *)
(* session's st.session_state, and st.rerun() restarts the script at once. *)
(* Each action below is one widget event together with the script run(s)   *)
(* it causes.                                                              *)
(***************************************************************************)
EXTENDS Integers, Sequences, FiniteSets, TLC

VARIABLES csv, df_q1, session_state, page, status, last_click

vars == <<csv, df_q1, session_state, page, status, last_click>>

-----------------------------------------------------------------------------
(* Values *)

\* Python's None.
None == "None"

\* pandas' missing value: what read_csv yields for an empty field.
NaN == "NaN"

\* The largest table the model loads.
MaxRows == 2

\* The names a 'Feature Category' field holds in the model.
CategoryNames == {"Email Marketing", "Product Reviews"}

\* The labels a 'Strategic Segment' field holds in the model.
SegmentLabels == {"Meeting Expectations", "High Demand, Good Quality"}

\* The scores a row holds in the model, as <<'Priority Level (1-5)',
\* 'Business Priority (0-100)', 'Quality Severity (0-100)'>>: a priority level
\* inside or outside the hero filter's [1, 2, 3], and each score either zero
\* (kept out of its top-10 chart) or positive.
Scores == {<<1, 62, 80>>, <<1, 0, 80>>, <<4, 62, 0>>}

\* One Category Record: the columns of query1_results.csv the navigation reads.
Rows ==
    {[Feature_Category |-> c,
      Strategic_Segment |-> g,
      Priority_Level |-> sc[1],
      Business_Priority |-> sc[2],
      Quality_Severity |-> sc[3]] :
        c \in CategoryNames \cup {NaN}, g \in SegmentLabels, sc \in Scores}

Tables == UNION {[1..n -> Rows] : n \in 0..MaxRows}

\* The columns of query1_results.csv a file variant may lack: the problem
\* text under the name render_category_detail reads and under the name
\* render_segment_detail reads, the significance flag and the market size.
OptionalColumns ==
    {"What's the Problem?", "What is the Problem?",
     "Statistically Significant?", "Total Reviews (Market Size)"}

\* query1_results.csv as the script finds it: whether the file is there,
\* and which of the optional columns its header has.  df_q1 holds its rows.
Files == [exists : BOOLEAN, columns : SUBSET OptionalColumns]

\* The file with every column.
FullFile == [exists |-> TRUE, columns |-> OptionalColumns]

\* bool(x) of a session value: None is falsy, a non-empty str and nan are truthy.
Truthy(x) == x # None

\* The == of a pandas column against a scalar: a missing value equals nothing.
Eq(a, b) == a # NaN /\ b # NaN /\ a = b

\* df[mask]: the index labels of the rows picked by mask, in table order.
RECURSIVE Masked(_, _, _)
Masked(df, mask, i) ==
    IF i > Len(df) THEN <<>>
    ELSE (IF i \in mask THEN <<i>> ELSE <<>>) \o Masked(df, mask, i + 1)

Range(s) == {s[i] : i \in DOMAIN s}

-----------------------------------------------------------------------------
(* Session state *)

Keys == {"current_view", "selected_segment", "selected_category", "clicked_metric_tab1"}

\* st.session_state of a session whose script never ran.
EmptyState == [k \in {} |-> None]

Default(k) == IF k = "current_view" THEN "main" ELSE None

\* InitSessionState with the tests for absence dropped.
InitSessionState_Unconditional(ss) ==
    [k \in Keys |-> Default(k)]

\* app.py 78-85: each field is set only when it is absent.
InitSessionState(ss) ==
    [k \in Keys |-> IF k \in DOMAIN ss THEN ss[k] ELSE Default(k)]

-----------------------------------------------------------------------------
(* Metrics read by the navigation widgets *)

\* The descending order of the rows idxs that keeps equal values in table
\* order: insertion into a descending list, an equal value after the ones
\* already placed.  It is the order nlargest(keep='first') selects in, and
\* one of the orders sort_values(ascending=False) may return.
RECURSIVE InsertDesc(_, _, _, _)
InsertDesc(df, field, sorted, i) ==
    IF sorted = <<>> THEN <<i>>
    ELSE IF df[Head(sorted)][field] >= df[i][field]
         THEN <<Head(sorted)>> \o InsertDesc(df, field, Tail(sorted), i)
         ELSE <<i>> \o sorted

RECURSIVE sort_values(_, _, _)
sort_values(df, field, idxs) ==
    IF idxs = <<>> THEN <<>>
    ELSE InsertDesc(df, field,
                    sort_values(df, field, SubSeq(idxs, 1, Len(idxs) - 1)),
                    idxs[Len(idxs)])

\* head(n)
head(s, n) == SubSeq(s, 1, IF Len(s) < n THEN Len(s) ELSE n)

\* The n rows of the smallest field instead of the largest.
nlargest_Smallest(df, n, field, idxs) ==
    LET s == sort_values(df, field, idxs)
    IN  SubSeq(s, (IF Len(s) < n THEN 0 ELSE Len(s) - n) + 1, Len(s))

\* nlargest(n, field): the n rows of the largest field, the earlier row first
\* among equals.
nlargest(df, n, field, idxs) == head(sort_values(df, field, idxs), n)

\* app.py 424: the rows behind the first hero button.
urgent_and_high(df) ==
    Masked(df, {i \in DOMAIN df : df[i].Priority_Level \in {1, 2, 3}}, 1)

\* app.py 473: the cards of the 'urgent' drill-down, in display order.
urgent_df(df) == sort_values(df, "Business_Priority", urgent_and_high(df))

\* The number of rows the two comparison charts keep.
TopChart == 10

\* app.py 1057-1059
problems_df(df) ==
    nlargest(df, TopChart, "Business_Priority",
             Masked(df, {i \in DOMAIN df : df[i].Business_Priority > 0}, 1))

\* app.py 1114-1116
severity_chart_df(df) ==
    nlargest(df, TopChart, "Quality_Severity",
             Masked(df, {i \in DOMAIN df : df[i].Quality_Severity > 0}, 1))

\* column.tolist() of a derived frame
tolist(df, field, idxs) == [k \in DOMAIN idxs |-> df[idxs[k]][field]]

\* One entry a label, each counting the label once however many rows carry it.
segment_counts_Distinct(df) ==
    LET labels == {df[i].Strategic_Segment : i \in DOMAIN df} \ {NaN}
    IN  [seg \in labels |-> 1]

\* app.py 841-842, 868: value_counts() drops missing labels; one entry a label.
segment_counts(df) ==
    LET labels == {df[i].Strategic_Segment : i \in DOMAIN df} \ {NaN}
    IN  [seg \in labels |->
            Cardinality({i \in DOMAIN df : df[i].Strategic_Segment = seg})]

\* The rows of a segment with the labels of SegmentLabels taken for one segment.
segment_df_Folded(df, segment) ==
    Masked(df, {i \in DOMAIN df : {df[i].Strategic_Segment, segment} \subseteq SegmentLabels}, 1)

segments_sorted(df) == DOMAIN segment_counts(df)

-----------------------------------------------------------------------------
(* Detail views: what a render ends in *)

\* app.py 149: the rows SegmentDetail shows for a segment.
segment_df(df, segment) ==
    Masked(df, {i \in DOMAIN df : Eq(df[i].Strategic_Segment, segment)}, 1)

\* row[column] and cat_data[column] raise KeyError for a column the file lacks.
KeyError(columns) == ~(columns \subseteq csv.columns)

\* app.py 145-238: "warning" is the 'No categories found' message; the cards
\* of a non-empty segment read row['What is the Problem?'] (236).
render_segment_detail(df, segment) ==
    IF Len(segment_df(df, segment)) = 0 THEN "warning"
    ELSE IF KeyError({"What is the Problem?"}) THEN "exception"
    ELSE "ok"

\* app.py 240-361: .iloc[0] of an empty slice raises IndexError (244); the
\* page then reads cat_data["What's the Problem?"] (285),
\* cat_data['Statistically Significant?'] (305) and
\* cat_data['Total Reviews (Market Size)'] (312).
render_category_detail(df, category) ==
    LET matches == Masked(df, {i \in DOMAIN df : Eq(df[i].Feature_Category, category)}, 1)
    IN  IF Len(matches) = 0 THEN "exception"
        ELSE IF KeyError({"What's the Problem?", "Statistically Significant?",
                          "Total Reviews (Market Size)"}) THEN "exception"
        ELSE "ok"

-----------------------------------------------------------------------------
(* One pass of app.py over the session state.  click is the widget event   *)
(* that started the pass: [widget, arg]; arg is the button's key part, or  *)
(* for the two 'View Full Analysis' buttons the value of their selectbox.  *)
(* A handler returns the session state it leaves and whether it called     *)
(* st.rerun().                                                             *)

NoClick == [widget |-> "none", arg |-> None]

Stay(ss) == [ss |-> ss, rerun |-> FALSE]

\* BackButton without line 372.
BackButton_KeepCategory(ss, click) ==
    IF ss.current_view # "main" /\ click.widget = "back"
    THEN [ss |-> [ss EXCEPT !.current_view = "main",
                            !.selected_segment = None],
          rerun |-> TRUE]
    ELSE Stay(ss)

\* BackButton without line 371.
BackButton_KeepSegment(ss, click) ==
    IF ss.current_view # "main" /\ click.widget = "back"
    THEN [ss |-> [ss EXCEPT !.current_view = "main",
                            !.selected_category = None],
          rerun |-> TRUE]
    ELSE Stay(ss)

\* BackButton clearing the drill-down selector as well.
BackButton_ClearsPanel(ss, click) ==
    IF ss.current_view # "main" /\ click.widget = "back"
    THEN [ss |-> [ss EXCEPT !.current_view = "main",
                            !.selected_segment = None,
                            !.selected_category = None,
                            !.clicked_metric_tab1 = None],
          rerun |-> TRUE]
    ELSE Stay(ss)

\* app.py 368-373
BackButton(ss, click) ==
    IF ss.current_view # "main" /\ click.widget = "back"
    THEN [ss |-> [ss EXCEPT !.current_view = "main",
                            !.selected_segment = None,
                            !.selected_category = None],
          rerun |-> TRUE]
    ELSE Stay(ss)

\* app.py 442-456: the buttons hero1..hero4 write the drill-down selector only.
HeroMetric == [hero1 |-> "urgent", hero2 |-> "severity", hero3 |-> "demand", hero4 |-> "affected"]

\* HeroButtons writing a navigation field as well.
HeroButtons_Navigate(ss, click) ==
    IF click.widget = "hero"
    THEN [ss EXCEPT !.clicked_metric_tab1 = HeroMetric[click.arg],
                    !.selected_segment = HeroMetric[click.arg]]
    ELSE ss

HeroButtons(ss, click) ==
    IF click.widget = "hero"
    THEN [ss EXCEPT !.clicked_metric_tab1 = HeroMetric[click.arg]]
    ELSE ss

\* ViewFullDetails where every card's button opens the first card's category.
ViewFullDetails_FirstCard(df, ss, click) ==
    IF /\ ss.clicked_metric_tab1 = "urgent"
       /\ click.widget = "detail"
       /\ click.arg \in Range(urgent_df(df))
    THEN [ss |-> [ss EXCEPT !.current_view = "category_detail",
                            !.selected_category =
                                df[urgent_df(df)[1]].Feature_Category],
          rerun |-> TRUE]
    ELSE Stay(ss)

\* app.py 462-506: the 'View Full Details' button of each card, keyed by the
\* row's index label, exists only in the 'urgent' drill-down.
ViewFullDetails(df, ss, click) ==
    IF /\ ss.clicked_metric_tab1 = "urgent"
       /\ click.widget = "detail"
       /\ click.arg \in Range(urgent_df(df))
    THEN [ss |-> [ss EXCEPT !.current_view = "category_detail",
                            !.selected_category = df[click.arg].Feature_Category],
          rerun |-> TRUE]
    ELSE Stay(ss)

\* SegmentButtons without line 878.
SegmentButtons_ViewOnly(df, ss, click) ==
    IF click.widget = "seg_btn" /\ click.arg \in segments_sorted(df)
    THEN [ss |-> [ss EXCEPT !.current_view = "segment_detail"],
          rerun |-> TRUE]
    ELSE Stay(ss)

\* app.py 870-879
SegmentButtons(df, ss, click) ==
    IF click.widget = "seg_btn" /\ click.arg \in segments_sorted(df)
    THEN [ss |-> [ss EXCEPT !.current_view = "segment_detail",
                            !.selected_segment = click.arg],
          rerun |-> TRUE]
    ELSE Stay(ss)

\* app.py 1100-1109: selected_cat_prob is whatever the selectbox returned.
ViewProb(ss, click) ==
    IF click.widget = "view_prob"
    THEN [ss |-> [ss EXCEPT !.current_view = "category_detail",
                            !.selected_category = click.arg],
          rerun |-> TRUE]
    ELSE Stay(ss)

\* app.py 1153-1162
ViewSev(ss, click) ==
    IF click.widget = "view_sev"
    THEN [ss |-> [ss EXCEPT !.current_view = "category_detail",
                            !.selected_category = click.arg],
          rerun |-> TRUE]
    ELSE Stay(ss)

Rendered(ss, pg, st) == [ss |-> ss, rerun |-> FALSE, page |-> pg, status |-> st]

Restart(ss) == [ss |-> ss, rerun |-> TRUE, page |-> "none", status |-> "none"]

\* app.py 919: read_csv gives the columns of a file without rows the dtype
\* object, which nlargest refuses with a TypeError.
heatmap_raises(df) == Len(df) = 0

\* app.py 396-1200: the Overview, reached when no detail view stopped the
\* script.  The drill-down cards and the segment buttons come before the
\* heatmap, the two selectors after it.
Overview(df, ss, click) ==
    LET s1 == HeroButtons(ss, click)
        d  == ViewFullDetails(df, s1, click)
        g  == SegmentButtons(df, s1, click)
        p  == ViewProb(s1, click)
        v  == ViewSev(s1, click)
    IN  IF d.rerun THEN Restart(d.ss)
        ELSE IF g.rerun THEN Restart(g.ss)
        ELSE IF heatmap_raises(df) THEN Rendered(s1, "overview", "exception")
        ELSE IF p.rerun THEN Restart(p.ss)
        ELSE IF v.rerun THEN Restart(v.ss)
        ELSE Rendered(s1, "overview", "ok")

\* Dispatch without either st.stop(): the Overview follows a detail view.
Dispatch_NoStop(df, ss, click) == Overview(df, ss, click)

\* Dispatch without the st.stop() of line 387.
Dispatch_SegmentFallsThrough(df, ss, click) ==
    IF ss.current_view = "category_detail" /\ Truthy(ss.selected_category)
    THEN Rendered(ss, "category_detail", render_category_detail(df, ss.selected_category))
    ELSE Overview(df, ss, click)

\* Dispatch on current_view alone, whatever the selection holds.
Dispatch_ViewOnly(df, ss, click) ==
    IF ss.current_view = "segment_detail"
    THEN Rendered(ss, "segment_detail", render_segment_detail(df, ss.selected_segment))
    ELSE IF ss.current_view = "category_detail"
    THEN Rendered(ss, "category_detail", render_category_detail(df, ss.selected_category))
    ELSE Overview(df, ss, click)

\* app.py 385-391: a detail view renders and stops the script.
Dispatch(df, ss, click) ==
    IF ss.current_view = "segment_detail" /\ Truthy(ss.selected_segment)
    THEN Rendered(ss, "segment_detail", render_segment_detail(df, ss.selected_segment))
    ELSE IF ss.current_view = "category_detail" /\ Truthy(ss.selected_category)
    THEN Rendered(ss, "category_detail", render_category_detail(df, ss.selected_category))
    ELSE Overview(df, ss, click)

\* app.py 90-94, 380: pd.read_csv raises FileNotFoundError for a missing
\* file and nothing catches it: the run ends below the page title.
load_query1_data_raises == ~csv.exists

\* The script with the back button below the detail views: a detail view
\* that raises ends the run before the button is reached.
Script_BackBelowViews(df, ss0, click) ==
    LET s1 == InitSessionState(ss0)
        b  == BackButton(s1, click)
        r  == Dispatch(df, s1, NoClick)
    IN  IF r.page # "overview" /\ r.status = "exception" THEN r
        ELSE IF b.rerun THEN Restart(b.ss)
        ELSE IF load_query1_data_raises THEN Rendered(s1, "title", "exception")
        ELSE Dispatch(df, s1, click)

\* app.py 78-391, top to bottom.
Script(df, ss0, click) ==
    LET s1 == InitSessionState(ss0)
        b  == BackButton(s1, click)
    IN  IF b.rerun THEN Restart(b.ss)
        ELSE IF load_query1_data_raises THEN Rendered(s1, "title", "exception")
        ELSE Dispatch(df, s1, click)

\* A widget event: the pass it starts and, after st.rerun(), the pass that
\* follows with no widget pressed.
Run(df, ss, click) ==
    LET r == Script(df, ss, click)
    IN  IF r.rerun THEN Script(df, r.ss, NoClick) ELSE r

-----------------------------------------------------------------------------
(* The session *)

\* st.selectbox returns one of its options, or None when it has none.
selectbox(options) == IF options = <<>> THEN {None} ELSE Range(options)

Init ==
    /\ csv = FullFile
    /\ df_q1 \in Tables
    /\ session_state = EmptyState
    /\ page = "none"
    /\ status = "none"
    /\ last_click = "none"

\* Do with the table of the complete-category section sorted in place in
\* the loaded table itself, and the loader handing out that one object.
Do_SortsInPlace(click) ==
    LET r == Run(df_q1, session_state, click)
        order == sort_values(df_q1, "Business_Priority", Masked(df_q1, DOMAIN df_q1, 1))
    IN  /\ session_state' = r.ss
        /\ page' = r.page
        /\ status' = r.status
        /\ last_click' = click.widget
        /\ df_q1' = (IF r.page = "overview" /\ r.status = "ok"
                     THEN [k \in DOMAIN df_q1 |-> df_q1[order[k]]]
                     ELSE df_q1)
        /\ UNCHANGED csv

\* The script reads df_q1 through filters, sorts and selections that return
\* new frames (.copy() at app.py 149, 922, 1186; sort_values without inplace
\* at 215, 473, 1187), and st.cache_data hands every run its own copy of the
\* loaded table: the table is the same after the run.
Do(click) ==
    LET r == Run(df_q1, session_state, click)
    IN  /\ session_state' = r.ss
        /\ page' = r.page
        /\ status' = r.status
        /\ last_click' = click.widget
        /\ UNCHANGED <<csv, df_q1>>

\* The first run of the script in a new session.
SessionStart ==
    /\ page = "none"
    /\ Do(NoClick)

\* A run no navigation widget caused.
Rerun ==
    /\ page # "none"
    /\ Do(NoClick)

\* app.py 368-369: the back button is drawn whenever the view is not 'main'.
back ==
    /\ page # "none"
    /\ session_state.current_view # "main"
    /\ Do([widget |-> "back", arg |-> None])

hero_metric(key) ==
    /\ page = "overview"
    /\ Do([widget |-> "hero", arg |-> key])

select_segment(seg) ==
    /\ page = "overview"
    /\ seg \in segments_sorted(df_q1)
    /\ Do([widget |-> "seg_btn", arg |-> seg])

view_full_details(idx) ==
    /\ page = "overview"
    /\ session_state.clicked_metric_tab1 = "urgent"
    /\ idx \in Range(urgent_df(df_q1))
    /\ Do([widget |-> "detail", arg |-> idx])

view_prob(cat) ==
    /\ page = "overview"
    /\ status = "ok"
    /\ cat \in selectbox(tolist(df_q1, "Feature_Category", problems_df(df_q1)))
    /\ Do([widget |-> "view_prob", arg |-> cat])

view_sev(cat) ==
    /\ page = "overview"
    /\ status = "ok"
    /\ cat \in selectbox(tolist(df_q1, "Feature_Category", severity_chart_df(df_q1)))
    /\ Do([widget |-> "view_sev", arg |-> cat])

Next ==
    \/ SessionStart
    \/ Rerun
    \/ back
    \/ \E key \in DOMAIN HeroMetric : hero_metric(key)
    \/ \E seg \in SegmentLabels : select_segment(seg)
    \/ \E idx \in 1..MaxRows : view_full_details(idx)
    \/ \E cat \in CategoryNames \cup {NaN, None} : view_prob(cat)
    \/ \E cat \in CategoryNames \cup {NaN, None} : view_sev(cat)

Spec == Init /\ [][Next]_vars

-----------------------------------------------------------------------------
(* Reading the navigation state *)

\* The script has run, so every field of st.session_state exists.
Started == page # "none"

current_view == session_state.current_view

selected_segment == session_state.selected_segment

selected_category == session_state.selected_category

clicked_metric_tab1 == session_state.clicked_metric_tab1

\* The Navigation State: <<view, selected_segment, selected_category>>.
nav == <<current_view, selected_segment, selected_category>>

\* name is the 'Feature Category' of some row of the table.
IsCategory(df, name) == \E i \in DOMAIN df : Eq(df[i].Feature_Category, name)

\* The widget events of the model.
Clicks ==
    {NoClick, [widget |-> "back", arg |-> None]}
        \cup [widget : {"hero"}, arg : DOMAIN HeroMetric]
        \cup [widget : {"seg_btn"}, arg : SegmentLabels]
        \cup [widget : {"detail"}, arg : 1..MaxRows]
        \cup [widget : {"view_prob", "view_sev"}, arg : CategoryNames \cup {NaN, None}]

\* select_category(cat) through any of its three entry points.
select_category(cat) ==
    \/ \E idx \in DOMAIN df_q1 :
          df_q1[idx].Feature_Category = cat /\ view_full_details(idx)
    \/ view_prob(cat)
    \/ view_sev(cat)

\* The category is offered by all three entry points of the Overview.
OfferedThrice(df, cat) ==
    /\ cat \in Range(tolist(df, "Feature_Category", urgent_df(df)))
    /\ cat \in Range(tolist(df, "Feature_Category", problems_df(df)))
    /\ cat \in Range(tolist(df, "Feature_Category", severity_chart_df(df)))

-----------------------------------------------------------------------------
(* C1 .. C10: navigation *)

\* C1: from the Overview state, select_segment(seg) for a segment of the table
\* leaves view = segment_detail, selected_segment = seg, selected_category null.
C1_SelectSegmentFromOverview ==
    [][\A seg \in SegmentLabels :
          (select_segment(seg) /\ current_view = "main")
              => nav' = <<"segment_detail", seg, None>>]_vars

\* A segment was selected in a session whose table keeps both selectors
\* non-empty, so the click was made in the Overview state.
C1_Witness ==
    /\ Started
    /\ last_click = "seg_btn"
    /\ page = "segment_detail"
    /\ problems_df(df_q1) # <<>>
    /\ severity_chart_df(df_q1) # <<>>
    /\ nav = <<"segment_detail", "Meeting Expectations", None>>

\* C2: back, taken in SegmentDetail or CategoryDetail after any sequence of
\* actions, leaves exactly <<main, null, null>>.
C2_BackResets ==
    [][back => nav' = <<"main", None, None>>]_vars

C2_Witness ==
    /\ Started
    /\ last_click = "back"
    /\ page = "overview"
    /\ nav = <<"main", None, None>>
    /\ clicked_metric_tab1 = "urgent"

\* C3: from the Overview state, select_category(cat) for a category of the
\* table, through any of the three entry points, leaves view = category_detail,
\* selected_category = cat and selected_segment null.
C3_SelectCategoryFromOverview ==
    [][\A cat \in CategoryNames :
          (select_category(cat) /\ current_view = "main")
              => nav' = <<"category_detail", None, cat>>]_vars

\* A category that all three entry points offer has been opened from a card of
\* the urgent drill-down.
C3_Witness ==
    /\ Started
    /\ last_click = "detail"
    /\ page = "category_detail"
    /\ status = "ok"
    /\ selected_segment = None
    /\ selected_category \in CategoryNames
    /\ OfferedThrice(df_q1, selected_category)

\* C4: select_category(name) for a name that is no Feature Category of the
\* table leaves the navigation state unchanged and shows an error message
\* instead of failing.
C4_UnknownCategoryRejected ==
    [][\A name \in CategoryNames \cup {NaN, None} :
          (select_category(name) /\ ~IsCategory(df_q1, name))
              => /\ nav' = nav
                 /\ status' = "warning"]_vars

\* C5: select_segment(label) for a label no row carries leaves the navigation
\* state unchanged and shows an error message.
C5_UnknownSegmentRejected ==
    [][\A label \in SegmentLabels \cup {NaN, None} :
          (select_segment(label) /\ label \notin segments_sorted(df_q1))
              => /\ nav' = nav
                 /\ status' = "warning"]_vars

\* C6: the first run leaves <<main, null, null>>; a later run of the script
\* that no widget caused leaves every field as it was; and the run that
\* st.rerun() starts after a handler keeps what the handler wrote.
C6_InitializedOnce ==
    [][/\ SessionStart => nav' = <<"main", None, None>>
       /\ Rerun => session_state' = session_state
       /\ \A click \in Clicks :
             (Started /\ last_click' = click.widget /\ Do(click))
                 => session_state' = Script(df_q1, session_state, click).ss]_vars

\* The script has run again on a session that was in a detail view.
C6_Witness ==
    /\ Started
    /\ last_click = "none"
    /\ nav = <<"segment_detail", "High Demand, Good Quality", None>>

\* C7 as claimed: in the SegmentDetail state some select_category action is
\* available.
C7_CategoryOfferedInSegmentDetail ==
    (Started /\ current_view = "segment_detail")
        => \E cat \in CategoryNames : ENABLED select_category(cat)

\* C7 as amended: no step taken in the SegmentDetail state selects a category;
\* the view stays or returns to main.
C7_NoCategoryFromSegmentDetail ==
    [][(Started /\ current_view = "segment_detail")
          => /\ current_view' \in {"segment_detail", "main"}
             /\ selected_category' = None]_vars

\* SegmentDetail is shown for a table one of whose categories every entry
\* point of the Overview offers.
C7_Witness ==
    /\ Started
    /\ page = "segment_detail"
    /\ current_view = "segment_detail"
    /\ \E cat \in CategoryNames : OfferedThrice(df_q1, cat)

\* C8 as claimed: in SegmentDetail with s selected, select_segment(t) is
\* available for every other segment t of the table.
C8_OtherSegmentOfferedInSegmentDetail ==
    (Started /\ current_view = "segment_detail")
        => \A t \in segments_sorted(df_q1) \ {selected_segment} :
              ENABLED select_segment(t)

\* C8 as amended: in SegmentDetail the selected segment is never overwritten by
\* another segment; it stays until back clears it.
C8_SegmentKeptInSegmentDetail ==
    [][(Started /\ current_view = "segment_detail")
          => selected_segment' \in {selected_segment, None}]_vars

\* SegmentDetail is shown while the table holds another segment.
C8_Witness ==
    /\ Started
    /\ page = "segment_detail"
    /\ selected_segment = "Meeting Expectations"
    /\ "High Demand, Good Quality" \in segments_sorted(df_q1)

\* C9: selected_segment is non-null only in segment_detail and
\* selected_category only in category_detail.
C9_SelectionMatchesView ==
    Started =>
        /\ selected_segment # None => current_view = "segment_detail"
        /\ selected_category # None => current_view = "category_detail"

\* A category is selected through the severity selector: the view is
\* category_detail and no segment is selected.
C9_Witness ==
    /\ Started
    /\ last_click = "view_sev"
    /\ current_view = "category_detail"
    /\ selected_category \in CategoryNames
    /\ selected_segment = None

\* C10: a step that changes the navigation state is a select_segment, a
\* select_category or a back (or the first run), and a hero button writes
\* clicked_metric_tab1 only.
C10_OnlyTransitionsWriteNav ==
    [][Started =>
          /\ nav' # nav =>
                \/ back
                \/ \E seg \in SegmentLabels : select_segment(seg)
                \/ \E cat \in CategoryNames \cup {NaN, None} : select_category(cat)
          /\ \A key \in DOMAIN HeroMetric :
                hero_metric(key)
                    => /\ nav' = nav
                       /\ clicked_metric_tab1' = HeroMetric[key]]_vars

C10_Witness ==
    /\ Started
    /\ last_click = "hero"
    /\ nav = <<"main", None, None>>
    /\ clicked_metric_tab1 = "affected"

-----------------------------------------------------------------------------
(* The metrics of the Overview.  The tables below carry the columns the    *)
(* hero metrics and their drill-down panels read; each specification draws *)
(* its tables from the rows that vary the columns its property is about.   *)

\* The largest table a metrics specification loads.
MaxMetricRows == 3

\* One row of query1_results.csv, with the columns lines 424-440 read.
Record(c, g, p, bp, sev, imp, dem, qvm, est) ==
    [Feature_Category |-> c,
     Strategic_Segment |-> g,
     Priority_Level |-> p,
     Business_Priority |-> bp,
     Quality_Severity |-> sev,
     Merchant_Impact |-> imp,
     Demand_Level |-> dem,
     Quality_vs_Median |-> qvm,
     Est_Merchants_Affected |-> est]

TablesOf(rows, n) == UNION {[1..k -> rows] : k \in 0..n}

\* df itself as a frame: every row, in table order.
all(df) == Masked(df, DOMAIN df, 1)

\* column.sum() of a frame: 0 for an empty one.
RECURSIVE sum(_, _, _)
sum(df, field, idxs) ==
    IF idxs = <<>> THEN 0
    ELSE df[Head(idxs)][field] + sum(df, field, Tail(idxs))

\* column.mean() of a frame, as the fraction num/den; den = 0 is the nan that
\* the mean of an empty column is.
mean(df, field, idxs) == [num |-> sum(df, field, idxs), den |-> Len(idxs)]

\* value >= m, value < m and value = m against a mean: all false against nan.
Ge(value, m) == m.den > 0 /\ value * m.den >= m.num

Lt(value, m) == m.den > 0 /\ value * m.den < m.num

Gt(value, m) == m.den > 0 /\ value * m.den > m.num

AtMean(value, m) == m.den > 0 /\ value * m.den = m.num

\* app.py 435-436
avg_quality_severity(df) == mean(df, "Quality_Severity", all(df))

avg_merchant_impact(df) == mean(df, "Merchant_Impact", all(df))

\* Quadrants with the high side of each axis strictly above the mean.
quadrants_Strict(df) ==
    LET s == avg_quality_severity(df)
        m == avg_merchant_impact(df)
    IN  [q1 |-> {i \in DOMAIN df : Gt(df[i].Quality_Severity, s) /\ Gt(df[i].Merchant_Impact, m)},
         q2 |-> {i \in DOMAIN df : Gt(df[i].Quality_Severity, s) /\ Lt(df[i].Merchant_Impact, m)},
         q3 |-> {i \in DOMAIN df : Lt(df[i].Quality_Severity, s) /\ Lt(df[i].Merchant_Impact, m)},
         q4 |-> {i \in DOMAIN df : Lt(df[i].Quality_Severity, s) /\ Gt(df[i].Merchant_Impact, m)}]

\* app.py 786-793: the rows of the four quadrants of the 'affected' panel.
quadrants(df) ==
    LET s == avg_quality_severity(df)
        m == avg_merchant_impact(df)
    IN  [q1 |-> {i \in DOMAIN df : Ge(df[i].Quality_Severity, s) /\ Ge(df[i].Merchant_Impact, m)},
         q2 |-> {i \in DOMAIN df : Ge(df[i].Quality_Severity, s) /\ Lt(df[i].Merchant_Impact, m)},
         q3 |-> {i \in DOMAIN df : Lt(df[i].Quality_Severity, s) /\ Lt(df[i].Merchant_Impact, m)},
         q4 |-> {i \in DOMAIN df : Lt(df[i].Quality_Severity, s) /\ Ge(df[i].Merchant_Impact, m)}]

\* len() of each quadrant, as the four boxes show it.
quadrant_counts(df) == [q \in DOMAIN quadrants(df) |-> Cardinality(quadrants(df)[q])]

\* The drill-down panel the Overview shows, after app.py 462, 541, 603, 665.
panel == IF page = "overview" THEN session_state.clicked_metric_tab1 ELSE None

\* A session on the Overview: its first run, its hero buttons, plain reruns.
NextOverview ==
    \/ SessionStart
    \/ Rerun
    \/ \E key \in DOMAIN HeroMetric : hero_metric(key)

\* The scores the quadrant tables hold: below, at and above 50.
Levels == {20, 50, 80}

QuadrantRows ==
    {Record("Email Marketing", "Meeting Expectations", 1, 62, sev, imp, "Very High", -1, 1000) :
        sev \in Levels, imp \in Levels}

InitQuadrant ==
    /\ csv = FullFile
    /\ df_q1 \in TablesOf(QuadrantRows, MaxMetricRows)
    /\ session_state = EmptyState
    /\ page = "none"
    /\ status = "none"
    /\ last_click = "none"

SpecQuadrant == InitQuadrant /\ [][NextOverview]_vars

-----------------------------------------------------------------------------
(* Top-N selections *)

\* sort_values(field, ascending=False) with its default kind='quicksort',
\* which keeps no order among equal values: every descending arrangement of
\* the frame is an order the call may return.
sort_values_orders(df, field, idxs) ==
    {o \in [1..Len(idxs) -> Range(idxs)] :
        /\ \A a, b \in DOMAIN o : a # b => o[a] # o[b]
        /\ \A a, b \in DOMAIN o : a < b => df[o[a]][field] >= df[o[b]][field]}

\* app.py 439
quality_gap_df(df) ==
    Masked(df, {i \in DOMAIN df : df[i].Quality_vs_Median < 0}, 1)

\* The number of rows the 'affected' panel and the heatmap keep.
TopAffected == 15

TopHeatmap == 25

\* app.py 677: the frames sort_values(...).head(n) may give.
affected_df_orders(df, n) ==
    {head(o, n) : o \in sort_values_orders(df, "Est_Merchants_Affected", quality_gap_df(df))}

\* app.py 919: the rows of the heatmap.
heatmap_df(df, n) == nlargest(df, n, "Business_Priority", all(df))

\* The top-n selections of the Overview whose row order is stable, each as
\* <<source frame, ranking column, selection>>, with n rows kept.
nlargest_sites(df, n) ==
    LET positive(field) == Masked(df, {i \in DOMAIN df : df[i][field] > 0}, 1)
    IN  {<<all(df), "Business_Priority", heatmap_df(df, n)>>,
         <<positive("Business_Priority"), "Business_Priority",
           nlargest(df, n, "Business_Priority", positive("Business_Priority"))>>,
         <<positive("Quality_Severity"), "Quality_Severity",
           nlargest(df, n, "Quality_Severity", positive("Quality_Severity"))>>}

\* Every top-n selection of the Overview, the 'affected' panel's in each
\* order its sort may give.
top_n_sites(df, n) ==
    nlargest_sites(df, n)
        \cup {<<quality_gap_df(df), "Est_Merchants_Affected", a>> : a \in affected_df_orders(df, n)}

\* The numbers of rows asked for: the cut-offs the model's tables can reach,
\* and the three the script uses.
TopK == (0..(MaxMetricRows + 1)) \cup {TopChart, TopAffected, TopHeatmap}

TopNRows ==
    {Record("Email Marketing", "Meeting Expectations", 1, sc[1], sc[2], 50, "Very High", qvm, est) :
        sc \in {<<0, 80>>, <<62, 80>>, <<90, 0>>}, qvm \in {-1, 1}, est \in {1000, 2000}}

InitTopN ==
    /\ csv = FullFile
    /\ df_q1 \in TablesOf(TopNRows, MaxMetricRows)
    /\ session_state = EmptyState
    /\ page = "none"
    /\ status = "none"
    /\ last_click = "none"

SpecTopN == InitTopN /\ [][NextOverview]_vars

C13_TiesKeepTableOrder ==
    (panel = "affected" /\ status = "ok") =>
        \A n \in TopK : \A site \in top_n_sites(df_q1, n) :
            LET frame == site[1]
                field == site[2]
                top   == site[3]
            IN  /\ \A a, b \in DOMAIN top :
                      (a < b /\ df_q1[top[a]][field] = df_q1[top[b]][field])
                          => top[a] < top[b]
                /\ \A i \in Range(frame) \ Range(top) : \A j \in Range(top) :
                      df_q1[i][field] = df_q1[j][field] => j < i

-----------------------------------------------------------------------------
(* Segments *)

\* The sum of the counts on the buttons of labels.
RECURSIVE total_count(_, _)
total_count(counts, labels) ==
    IF labels = {} THEN 0
    ELSE LET seg == CHOOSE l \in labels : TRUE
         IN  counts[seg] + total_count(counts, labels \ {seg})

C15_SynonymsFolded ==
    /\ page = "overview" =>
          /\ Cardinality(segments_sorted(df_q1) \cap SegmentLabels) <= 1
          /\ \A seg \in segments_sorted(df_q1) \cap SegmentLabels :
                segment_counts(df_q1)[seg] =
                    Cardinality({i \in DOMAIN df_q1 : df_q1[i].Strategic_Segment \in SegmentLabels})
    /\ (page = "segment_detail" /\ session_state.selected_segment \in SegmentLabels) =>
          Range(segment_df(df_q1, session_state.selected_segment)) =
              {i \in DOMAIN df_q1 : df_q1[i].Strategic_Segment \in SegmentLabels}

\* C15, amended: the two labels are two segments.  Each label some row carries
\* has its own button, counting the rows of exactly that label, and
\* SegmentDetail of a label shows the rows of exactly that label.
C15_LabelsKeptApart ==
    /\ page = "overview" =>
          /\ segments_sorted(df_q1) = {df_q1[i].Strategic_Segment : i \in DOMAIN df_q1}
          /\ \A seg \in segments_sorted(df_q1) :
                segment_counts(df_q1)[seg] =
                    Cardinality({i \in DOMAIN df_q1 : df_q1[i].Strategic_Segment = seg})
    /\ page = "segment_detail" =>
          Range(segment_df(df_q1, session_state.selected_segment)) =
              {i \in DOMAIN df_q1 : df_q1[i].Strategic_Segment = session_state.selected_segment}

\* SegmentDetail of 'Meeting Expectations' is shown for a table that also has
\* a 'High Demand, Good Quality' row.
C15_Witness ==
    /\ page = "segment_detail"
    /\ session_state.selected_segment = "Meeting Expectations"
    /\ \E i \in DOMAIN df_q1 : df_q1[i].Strategic_Segment = "High Demand, Good Quality"

-----------------------------------------------------------------------------
(* Hero metrics and drill-down panels *)

\* app.py 425
high_severity(df) ==
    Masked(df, {i \in DOMAIN df : df[i].Quality_Severity >= 50}, 1)

\* app.py 431
very_high_demand(df) ==
    Masked(df, {i \in DOMAIN df : Eq(df[i].Demand_Level, "Very High")}, 1)

\* The slice behind each hero button and its drill-down panel.
hero_slice(df, metric) ==
    CASE metric = "urgent" -> urgent_and_high(df)
      [] metric = "severity" -> high_severity(df)
      [] metric = "demand" -> very_high_demand(df)
      [] metric = "affected" -> quality_gap_df(df)

\* f"{int(x)}" of a fraction x: int() raises ValueError for nan, else the
\* digits of the whole part.
int(x) == IF x.den = 0 THEN "ValueError" ELSE ToString(x.num \div x.den)

\* f"{x:.0f}" of a fraction x: "nan" for nan, else the digits (here of the
\* whole part).
format(x) == IF x.den = 0 THEN "nan" ELSE ToString(x.num \div x.den)

\* app.py 427-456: the number each hero button carries.
hero_value(df, metric) ==
    IF metric = "affected"
    THEN int([num |-> sum(df, "Est_Merchants_Affected", quality_gap_df(df)), den |-> 1000])
    ELSE ToString(Len(hero_slice(df, metric)))

\* The summary figures a drill-down panel prints for its slice:
\* app.py 621-630 for 'demand', 683-688 for 'affected'; the other two panels
\* list their rows and compute nothing.
panel_summary(df, metric) ==
    LET slice == hero_slice(df, metric)
    IN  CASE metric = "demand" ->
                <<ToString(Len(slice)),
                  format(mean(df, "Business_Priority", slice)),
                  ToString(Cardinality({i \in Range(slice) : df[i].Quality_vs_Median < 0})),
                  int([num |-> sum(df, "Est_Merchants_Affected", slice), den |-> 1000])>>
          [] metric = "affected" ->
                <<ToString(Len(slice)),
                  hero_value(df, metric),
                  format(mean(df, "Quality_vs_Median", slice))>>
          [] OTHER -> <<ToString(Len(slice))>>

\* What a drill-down panel shows (app.py 462-831): one card or table line a
\* row of its slice, its summary figures, and no message of any kind.
drilldown(df, metric) ==
    [rows |-> hero_slice(df, metric),
     summary |-> panel_summary(df, metric),
     message |-> None]

\* A figure failed to compute.
Raised(summary) == \E k \in DOMAIN summary : summary[k] = "ValueError"

SliceRows ==
    {Record("Email Marketing", "Meeting Expectations", p, 62, sev, 50, dem, qvm, 1000) :
        p \in {1, 4}, sev \in {20, 80}, dem \in {"Very High", "Low"}, qvm \in {-1, 1}}

InitSlices ==
    /\ csv = FullFile
    /\ df_q1 \in TablesOf(SliceRows, MaxMetricRows)
    /\ session_state = EmptyState
    /\ page = "none"
    /\ status = "none"
    /\ last_click = "none"

SpecSlices == InitSlices /\ [][NextOverview]_vars

\* C16: on the Overview, a hero metric whose filter matches no row shows a
\* number, a drill-down panel whose slice is empty computes every figure of
\* its summary, and the run that displays them completes without exception.
C16_EmptySliceCompletes ==
    page = "overview" =>
        /\ \A metric \in Range(HeroMetric) :
              hero_slice(df_q1, metric) = <<>> =>
                  /\ hero_value(df_q1, metric) = "0"
                  /\ status = "ok"
        /\ (panel # None /\ hero_slice(df_q1, panel) = <<>>) =>
              /\ ~Raised(drilldown(df_q1, panel).summary)
              /\ status = "ok"

\* C19: a displayed slice with no row comes with a visible no-data message:
\* the warning of SegmentDetail, or a message in the drill-down panel.
C19_EmptySliceSaysNoData ==
    /\ (page = "segment_detail"
            /\ segment_df(df_q1, session_state.selected_segment) = <<>>)
          => status = "warning"
    /\ (page = "overview" /\ panel # None /\ hero_slice(df_q1, panel) = <<>>)
          => drilldown(df_q1, panel).message # None

-----------------------------------------------------------------------------
(* File variants *)

\* The largest table a file-variant specification loads.
MaxFileRows == 1

\* app.py 1174-1181
desired_cols ==
    <<"Feature Category", "Strategic Segment", "Demand Level",
      "Quality Severity (0-100)", "Merchant Impact (0-100)", "Business Priority (0-100)",
      "Priority Level (1-5)", "Action Timeline", "Current Avg Rating",
      "Reviews Per App", "Est. Merchants Affected", "Predicted Churn %",
      "Quality vs Median", "% Apps with 4.5+ Stars",
      "Statistically Significant?">>

\* app.py 1171: the columns of the loaded table; those that are not optional
\* are in every file.
available_cols == (Range(desired_cols) \ OptionalColumns) \cup csv.columns

RECURSIVE Filter(_, _)
Filter(s, keep) ==
    IF s = <<>> THEN <<>>
    ELSE (IF Head(s) \in keep THEN <<Head(s)>> ELSE <<>>) \o Filter(Tail(s), keep)

\* app.py 1184
display_cols == Filter(desired_cols, available_cols)

\* app.py 96-125: which stack files the combined table comes from, given
\* which of query2a_2app_stacks.csv and query2b_3app_stacks.csv are there.
\* Only the read of the 3-app file is inside the try.
load_query2_data(two_app, three_app) ==
    IF ~two_app THEN "FileNotFoundError"
    ELSE IF three_app THEN "2-app and 3-app stacks"
    ELSE "2-app stacks"

FileRows ==
    {[Feature_Category |-> c,
      Strategic_Segment |-> g,
      Priority_Level |-> 1,
      Business_Priority |-> 62,
      Quality_Severity |-> 80] : c \in CategoryNames, g \in SegmentLabels}

\* A session over any file variant; a file that is missing has no rows.
InitFiles ==
    /\ csv \in {f \in Files : f.exists \/ f.columns = {}}
    /\ df_q1 \in (IF csv.exists THEN TablesOf(FileRows, MaxFileRows) ELSE {<<>>})
    /\ session_state = EmptyState
    /\ page = "none"
    /\ status = "none"
    /\ last_click = "none"

SpecFiles == InitFiles /\ [][Next]_vars

\* C17: with a file that lacks optional columns no run aborts: the
\* complete-category table is built from the columns the file has, and
\* SegmentDetail and CategoryDetail of a segment or category of the table
\* render to their end.
C17_MissingColumnTolerated ==
    (csv.exists /\ Len(df_q1) > 0) =>
        /\ page = "overview" =>
              /\ status = "ok"
              /\ Range(display_cols) = Range(desired_cols) \cap available_cols
        /\ page = "segment_detail" => status \in {"ok", "warning"}
        /\ (page = "category_detail" /\ IsCategory(df_q1, session_state.selected_category))
              => status = "ok"

\* C18: when query1_results.csv is missing the run does not end in an
\* exception (it shows a data-unavailable message instead); and the stack
\* loader, given the 2-app file without the 3-app file, returns the 2-app
\* stacks alone.
C18_DataUnavailableShown ==
    /\ (Started /\ ~csv.exists) => status # "exception"
    /\ load_query2_data(TRUE, FALSE) = "2-app stacks"

-----------------------------------------------------------------------------
(* The loaded table *)

\* C20: no step of the session changes the loaded table: whatever is clicked
\* and whichever view is rendered, df_q1 has the rows, in the order, it was
\* loaded with, and the file's columns stay what they were.
C20_TableNeverChanges == [][df_q1' = df_q1 /\ csv' = csv]_vars

\* The Overview has rendered to its end, sorting its complete-category table
\* by business priority, over a table stored in rising order of priority.
C20_Witness ==
    /\ page = "overview"
    /\ status = "ok"
    /\ last_click = "hero"
    /\ Len(df_q1) = 2
    /\ df_q1[1].Business_Priority < df_q1[2].Business_Priority

-----------------------------------------------------------------------------
(* The 'urgent' drill-down *)

\* Tables whose rows take the priority levels on both sides of the hero
\* filter and of the panel's 'Priority 1 & 2' text.
PriorityRows ==
    {[Feature_Category |-> c,
      Strategic_Segment |-> "Meeting Expectations",
      Priority_Level |-> p,
      Business_Priority |-> 62,
      Quality_Severity |-> 80] : c \in CategoryNames, p \in 1..4}

InitPriority ==
    /\ csv = FullFile
    /\ df_q1 \in TablesOf(PriorityRows, MaxMetricRows)
    /\ session_state = EmptyState
    /\ page = "none"
    /\ status = "none"
    /\ last_click = "none"

SpecPriority == InitPriority /\ [][NextOverview]_vars

\* C21: while the 'urgent' panel is shown its cards are exactly the rows of
\* priority level 1 or 2, and the first hero button carries their number.
C21_UrgentIsPriorityOneOrTwo ==
    panel = "urgent" =>
        LET one_or_two == {i \in DOMAIN df_q1 : df_q1[i].Priority_Level \in {1, 2}}
        IN  /\ Range(urgent_df(df_q1)) = one_or_two
            /\ hero_value(df_q1, "urgent") = ToString(Cardinality(one_or_two))

-----------------------------------------------------------------------------
(* Selections and the table *)

\* C22: in every reachable state a selected segment is the label of some
\* row and a selected category is the name of some row, so SegmentDetail
\* never shows 'No categories found' and CategoryDetail never fails its
\* lookup.
C22_SelectionsInTable ==
    Started =>
        /\ selected_segment # None
              => \E i \in DOMAIN df_q1 : Eq(df_q1[i].Strategic_Segment, selected_segment)
        /\ selected_category # None => IsCategory(df_q1, selected_category)
        /\ ~(page = "segment_detail" /\ status = "warning")
        /\ ~(page = "category_detail" /\ status = "exception")

-----------------------------------------------------------------------------
(* The drill-down selector *)

\* C23: select_segment, select_category and back leave clicked_metric_tab1
\* as it was, and once it names a drill-down panel no step makes it null
\* again.
C23_PanelSurvivesNavigation ==
    [][Started =>
          /\ (\/ back
              \/ \E seg \in SegmentLabels : select_segment(seg)
              \/ \E cat \in CategoryNames \cup {NaN, None} : select_category(cat))
                => clicked_metric_tab1' = clicked_metric_tab1
          /\ clicked_metric_tab1 # None => clicked_metric_tab1' # None]_vars

\* Back from SegmentDetail has returned to the Overview, which shows the
\* 'urgent' panel chosen before the segment was selected.
C23_Witness ==
    /\ Started
    /\ last_click = "back"
    /\ page = "overview"
    /\ panel = "urgent"

-----------------------------------------------------------------------------
(* Going back *)

\* The session state and page a press of the back button leaves.
after_back == Run(df_q1, session_state, [widget |-> "back", arg |-> None])

-----------------------------------------------------------------------------
(* One view a run *)

\* The view a run renders for a session state, as the claim names it.
view_of(ss) ==
    IF ss.current_view = "segment_detail" /\ ss.selected_segment # None
    THEN "segment_detail"
    ELSE IF ss.current_view = "category_detail" /\ ss.selected_category # None
    THEN "category_detail"
    ELSE "overview"

\* app.py 462, 541, 603, 665: the drill-down panels whose branch is taken.
panels_shown(ss) == {metric \in Range(HeroMetric) : ss.clicked_metric_tab1 = metric}

\* C25: the page of every run is the one view the navigation state selects:
\* SegmentDetail for 'segment_detail' with a selected segment, CategoryDetail
\* for 'category_detail' with a selected category, the Overview otherwise.
\* On a detail page no segment button, category entry point or hero button
\* exists (such an event does what a plain rerun does), and the Overview
\* shows at most one drill-down panel.
C25_OneViewRendered ==
    Started =>
        /\ page = view_of(session_state)
        /\ page # "overview" =>
              \A click \in Clicks :
                  click.widget \notin {"none", "back"}
                      => Run(df_q1, session_state, click) = Run(df_q1, session_state, NoClick)
        /\ page = "overview" => Cardinality(panels_shown(session_state)) <= 1

\* The Overview is rendered although current_view is 'category_detail': the
\* selector of an empty chart gave None, so no category is selected.
C25_Witness ==
    /\ Started
    /\ current_view = "category_detail"
    /\ selected_category = None
    /\ page = "overview"
    /\ panels_shown(session_state) = {"urgent"}

====
